---- MODULE Spec2Model ----
(***************************************************************************)
(* Rollup Rotator (src/rollup_rotator.py): the JSON-RPC prober, the        *)
(* reference head estimator, the endpoint scorer, the commands             *)
(* add/remove/test/best/pick/use and the sticky file current.json.         *)
(*                                                                         *)
(* cmd_list only prints the pool and is left out.                          *)
(*                                                                         *)
(* Numbers.  Latencies are whole milliseconds.  Penalties are fixed-point  *)
(* fractions with denominator One = 12000, a multiple of the latency       *)
(* budget 1200 and of the drift window 10, so lat / 1200 and               *)
(* (drift - 3) / 10 are exact; a score before rounding is in units of      *)
(* 1/(10*One) and a rounded score is in thousandths (0..1000).             *)
(***************************************************************************)
EXTENDS Integers, Sequences, FiniteSets, TLC

VARIABLES
    pool,     \* endpoints.json: the urls of cfg["endpoints"], in file order
    cur,      \* current.json: Absent, a malformed content, or a selection
    net,      \* the responses the network may give to one HTTP exchange
    pc,       \* position of the running command
    cmd,      \* the command being run
    sample,   \* _best_height: the sampled pool positions not probed yet
    hlog,     \* _best_height: pool position -> responses probed there
    href,     \* _best_height's `best`, then the caller's head_ref
    rows,     \* the list of _score_endpoint results being built
    ranked,   \* rows after rows.sort(...) (test, pick)
    chosen,   \* `best` of cmd_best / cmd_pick, as a sequence of 0 or 1 row
    out,      \* what the command printed on stdout
    err,      \* the exception that ended the command, "" if none
    nprobes,  \* number of _rpc_post calls of the running command
    fsTmp,    \* sticky store: inode named current.json.tmp, 0 if none
    fsCur,    \* sticky store: inode named current.json, 0 if none
    inode,    \* sticky store: inode -> content (a sequence of bytes)
    spc,      \* sticky store: saver process -> position in _save
    sfd,      \* sticky store: saver process -> inode of its open file
    sobj,     \* sticky store: saver process -> the text it dumps
    lpc,      \* sticky store: loader process -> position in _load
    lfd,      \* sticky store: loader process -> inode of its open file
    lgot      \* sticky store: loader process -> what _load read

cliVars   == <<pool, cur, net, pc, cmd, sample, hlog, href, rows, ranked,
               chosen, out, err, nprobes>>
storeVars == <<fsTmp, fsCur, inode, spc, sfd, sobj, lpc, lfd, lgot>>
vars      == <<pool, cur, net, pc, cmd, sample, hlog, href, rows, ranked,
               chosen, out, err, nprobes,
               fsTmp, fsCur, inode, spc, sfd, sobj, lpc, lfd, lgot>>

----------------------------------------------------------------------------
(* Program constants *)

HEAD_SKEW_OK  == 3
LAT_BUDGET_MS == 1200
SAMPLE_MAX    == 3

(* Fixed-point one for the penalties *)
One == 10 * LAT_BUDGET_MS

(* Bounds of the model *)
MaxPool   == 3      \* longest endpoint list the CLI specification builds
MaxCand   == 5      \* longest candidate list given to the head estimator
MaxRef    == 20     \* largest reference head given to the scorer alone
MaxLatIdx == 13     \* scorer alone: latencies 0, 100, ..., 100*MaxLatIdx
NSavers   == 2      \* concurrent _save processes on current.json
NLoaders  == 1      \* concurrent _load processes on current.json
MaxText   == 2      \* longest text (in bytes of the model) a saver dumps

Min(a, b) == IF a <= b THEN a ELSE b
Max(a, b) == IF a >= b THEN a ELSE b

----------------------------------------------------------------------------
(* Values *)

NoDrift == -1       \* stands for drift = None (a drift is never negative)

(* The urls a user can `add`: any string is accepted.  "foo" has no scheme, *)
(* so urllib.request.Request("foo") raises ValueError.                      *)
GoodUrls == {"http://a", "http://b"}
BadUrls  == {"foo"}
Urls     == GoodUrls \cup BadUrls

UrlUsable(url) == url \in GoodUrls

(* What one HTTP exchange can do: raise URLError (DNS, refused, HTTP       *)
(* status, connect timeout), raise another exception (read timeout),       *)
(* or return a body: not JSON, JSON that is no object, an object with      *)
(* "error", an object with "result" (a string or null) or without it.      *)
Str(s) == [t |-> "str",  s |-> s]
Null   == [t |-> "null", s |-> <<>>]
Resp(kind, lat, res) == [kind |-> kind, lat |-> lat, res |-> res]

Hex100 == Str(<<"0", "x", "6", "4">>)
Hex105 == Str(<<"6", "9">>)
Hex120 == Str(<<"0", "x", "7", "8">>)
HexBad == Str(<<"0", "x", "z">>)

FailKinds == {"urlerror", "timeout", "nonjson", "notobject", "rpcerror"}

AllResponses ==
    {Resp(k, 1500, Null) : k \in {"urlerror", "timeout"}}
    \cup {Resp(k, 100, Null) : k \in {"nonjson", "notobject", "rpcerror"}}
    \cup {Resp("result", 100, r) : r \in {Hex100, Hex105, Hex120, HexBad, Null}}
    \cup {Resp("noresult", 100, Null)}
    \cup {Resp("result", 1500, Hex100)}

CliResponses ==
    {Resp("urlerror", 1500, Null), Resp("result", 100, Hex120),
     Resp("result", 1500, Hex100)}

----------------------------------------------------------------------------
(* _hex_to_int: int(x, 16), -1 on any exception *)

HexDigits == <<"0", "1", "2", "3", "4", "5", "6", "7", "8", "9",
               "a", "b", "c", "d", "e", "f">>

IsHexDigit(c) == \E i \in 1..16 : HexDigits[i] = c
DigitVal(c)   == (CHOOSE i \in 1..16 : HexDigits[i] = c) - 1

RECURSIVE HexVal(_, _)
HexVal(s, acc) ==
    IF s = <<>> THEN acc ELSE HexVal(Tail(s), 16 * acc + DigitVal(Head(s)))

StripPrefix(s) ==
    IF Len(s) >= 2 /\ s[1] = "0" /\ s[2] = "x" THEN SubSeq(s, 3, Len(s)) ELSE s

HexToInt(x) ==
    IF x.t # "str" THEN -1                         \* int(None, 16): TypeError
    ELSE LET d == StripPrefix(x.s)
         IN  IF d = <<>> \/ \E i \in 1..Len(d) : ~IsHexDigit(d[i])
             THEN -1                               \* ValueError
             ELSE HexVal(d, 0)

----------------------------------------------------------------------------
(* _rpc_post, once the Request object exists: (ok, result_or_error, latency) *)

RpcPost(r) ==
    CASE r.kind = "urlerror"  -> [ok |-> FALSE, res |-> Null, msg |-> "urlerror",  lat |-> r.lat]
      [] r.kind = "timeout"   -> [ok |-> FALSE, res |-> Null, msg |-> "unexpected", lat |-> r.lat]
      [] r.kind = "nonjson"   -> [ok |-> FALSE, res |-> Null, msg |-> "unexpected", lat |-> r.lat]
      [] r.kind = "notobject" -> [ok |-> FALSE, res |-> Null, msg |-> "unexpected", lat |-> r.lat]
      [] r.kind = "rpcerror"  -> [ok |-> FALSE, res |-> Null, msg |-> "rpcerror",  lat |-> r.lat]
      [] r.kind = "result"    -> [ok |-> TRUE,  res |-> r.res, msg |-> "",         lat |-> r.lat]
      [] r.kind = "noresult"  -> [ok |-> TRUE,  res |-> Null,  msg |-> "",         lat |-> r.lat]

----------------------------------------------------------------------------
(* _score_endpoint *)

DriftSigned(head_ref, head) == IF head_ref < 0 THEN 0 ELSE head_ref - head

Drift(head_ref, head) == IF head_ref < 0 THEN 0 ELSE Max(0, head_ref - head)

LatP(lat) == Min(One, (lat * One) \div LAT_BUDGET_MS)

DriftP(drift) ==
    IF drift <= HEAD_SKEW_OK THEN 0
    ELSE Min(One, ((drift - HEAD_SKEW_OK) * One) \div 10)

RawScoreNoFloor(lat, drift) ==
    10 * One - 6 * ((lat * One) \div LAT_BUDGET_MS) - 4 * DriftP(drift)

(* max(0.0, 1.0 - 0.6*lat_p - 0.4*drift_p), in units of 1/(10*One) *)
RawScore(lat, drift) == Max(0, 10 * One - 6 * LatP(lat) - 4 * DriftP(drift))

(* round(score, 3), in thousandths.  A value exactly between two           *)
(* thousandths is rounded to either neighbour: the float that holds it is  *)
(* slightly above or below the midpoint (latency 1 ms gives 1.0 from       *)
(* 0.9995 at drift 0 and 0.919 from 0.9195 at drift 5).  `tie` is the      *)
(* direction taken.                                                        *)
Round3(raw, tie) ==
    LET q == raw \div (One \div 100)
        r == raw % (One \div 100)
        half == One \div 200
    IN  IF r < half THEN q
        ELSE IF r > half THEN q + 1
        ELSE q + tie

Row(url, pos, ok, lat, head, drift, score, error) ==
    [url |-> url, pos |-> pos, ok |-> ok, lat_ms |-> lat, head |-> head,
     drift |-> drift, score |-> score, error |-> error]

(* `pos` is the pool position the url was read from (not a field of the    *)
(* code's dict; it tells equal urls apart).  lat_ms = round(lat, 1) is     *)
(* exact on whole milliseconds.                                            *)
ScoreEndpoint(url, pos, head_ref, r, tie) ==
    LET p == RpcPost(r)
    IN  IF p.ok
        THEN LET head  == HexToInt(p.res)
                 drift == Drift(head_ref, head)
             IN  Row(url, pos, TRUE, p.lat, head, drift,
                     Round3(RawScore(p.lat, drift), tie), "")
        ELSE Row(url, pos, FALSE, p.lat, -1, NoDrift, 0, p.msg)

----------------------------------------------------------------------------
(* The sticky file current.json, as the sequential commands see it *)

FileContent(kind, url, score, lat, head) ==
    [kind |-> kind, url |-> url, score |-> score, lat_ms |-> lat, head |-> head]

Absent    == FileContent("absent", "", 0, 0, -1)      \* no such file
Malformed == FileContent("malformed", "", 0, 0, -1)   \* not JSON (empty, cut)
NotObject == FileContent("notobject", "", 0, 0, -1)   \* JSON, but no object

(* cur of cmd_pick; picked_at (the wall clock) is left out *)
Selection(best) ==
    FileContent("selection", best.url, best.score, best.lat_ms, best.head)

----------------------------------------------------------------------------
(* rows.sort(key=lambda r: r["score"], reverse=True): stable, descending *)

RECURSIVE InsertDesc(_, _)
InsertDesc(s, r) ==
    IF s = <<>> THEN <<r>>
    ELSE IF Head(s).score >= r.score THEN <<Head(s)>> \o InsertDesc(Tail(s), r)
    ELSE <<r>> \o s

RECURSIVE SortDesc(_)
SortDesc(s) ==
    IF s = <<>> THEN <<>>
    ELSE InsertDesc(SortDesc(SubSeq(s, 1, Len(s) - 1)), s[Len(s)])

(* max(rows, key=lambda r: r["score"]): the first row with the top score *)
RECURSIVE MaxFirst(_)
MaxFirst(s) ==
    IF Len(s) = 1 THEN s[1]
    ELSE LET m == MaxFirst(SubSeq(s, 1, Len(s) - 1))
         IN  IF s[Len(s)].score > m.score THEN s[Len(s)] ELSE m

----------------------------------------------------------------------------
(* random.shuffle(sample); sample[: min(len(sample), 3)], as pool positions *)

Samples(n) ==
    LET k == Min(n, SAMPLE_MAX)
    IN  {s \in [1..k -> 1..n] : \A i, j \in 1..k : i # j => s[i] # s[j]}

----------------------------------------------------------------------------
(* The commands.  One process runs one command at a time. *)

Ready == pc \in {"idle", "done", "crashed"}

NoLog == <<>>

Fresh(c) ==
    /\ cmd' = c
    /\ href' = -1
    /\ rows' = <<>>
    /\ ranked' = <<>>
    /\ chosen' = <<>>
    /\ nprobes' = 0

(* cmd_add *)
CmdAdd ==
    /\ Ready
    /\ Len(pool) < MaxPool
    /\ \E url \in Urls :
         /\ pool' = Append(pool, url)
         /\ out' = <<"Added:", url>>
    /\ Fresh("add")
    /\ pc' = "done"
    /\ err' = ""
    /\ sample' = <<>>
    /\ hlog' = NoLog
    /\ UNCHANGED <<cur, net>>
    /\ UNCHANGED storeVars

(* cmd_remove *)
CmdRemove ==
    /\ Ready
    /\ \E url \in Urls :
         LET eps == SelectSeq(pool, LAMBDA u : u # url)
         IN  /\ pool' = eps
             /\ out' = IF Len(eps) < Len(pool) THEN <<"Removed", url>>
                       ELSE <<"Nothing to remove:", url>>
    /\ Fresh("remove")
    /\ pc' = "done"
    /\ err' = ""
    /\ sample' = <<>>
    /\ hlog' = NoLog
    /\ UNCHANGED <<cur, net>>
    /\ UNCHANGED storeVars

(* The common start of cmd_test, cmd_best and cmd_pick: the empty-pool     *)
(* return, else the first lines of _best_height.                           *)
Begin(c, msg) ==
    /\ Fresh(c)
    /\ err' = ""
    /\ IF pool = <<>>
       THEN /\ out' = <<msg>>
            /\ pc' = "done"
            /\ sample' = <<>>
            /\ hlog' = NoLog
       ELSE /\ out' = <<>>
            /\ pc' = "head"
            /\ sample' \in Samples(Len(pool))
            /\ hlog' = [i \in 1..Len(pool) |-> <<>>]
    /\ UNCHANGED <<pool, cur, net>>
    /\ UNCHANGED storeVars
(* An exception nobody catches: the traceback ends the process *)
Crash(e) ==
    /\ pc' = "crashed"
    /\ err' = e

(* One turn of the loop of _best_height: _rpc_post(u, ...) and the max.    *)
(* Request(url, ...) stands before the try of _rpc_post: an unusable url   *)
(* raises ValueError through _best_height and the command.                 *)
HeadProbe ==
    /\ pc = "head"
    /\ sample # <<>>
    /\ LET i == Head(sample)
       IN  IF ~UrlUsable(pool[i])
           THEN /\ Crash("ValueError")
                /\ UNCHANGED <<sample, hlog, href, nprobes>>
           ELSE /\ \E r \in net :
                     LET p == RpcPost(r)
                     IN  /\ href' = IF p.ok THEN Max(href, HexToInt(p.res))
                                    ELSE href
                         /\ hlog' = [hlog EXCEPT ![i] = Append(@, r)]
                /\ sample' = Tail(sample)
                /\ nprobes' = nprobes + 1
                /\ UNCHANGED <<pc, err>>
    /\ UNCHANGED <<pool, cur, net, cmd, rows, ranked, chosen, out>>
    /\ UNCHANGED storeVars

(* return best *)
HeadReturn ==
    /\ pc = "head"
    /\ sample = <<>>
    /\ pc' = "score"
    /\ hlog' = NoLog
    /\ UNCHANGED <<pool, cur, net, cmd, sample, href, rows, ranked, chosen,
                   out, err, nprobes>>
    /\ UNCHANGED storeVars

(* One element of [_score_endpoint(u, head_ref) for u in eps] *)
ScoreProbe ==
    /\ pc = "score"
    /\ Len(rows) < Len(pool)
    /\ LET i == Len(rows) + 1
       IN  IF ~UrlUsable(pool[i])
           THEN /\ Crash("ValueError")
                /\ UNCHANGED <<rows, nprobes>>
           ELSE /\ \E r \in net, tie \in {0, 1} :
                     rows' = Append(rows, ScoreEndpoint(pool[i], i, href, r, tie))
                /\ nprobes' = nprobes + 1
                /\ UNCHANGED <<pc, err>>
    /\ UNCHANGED <<pool, cur, net, cmd, sample, hlog, href, ranked, chosen, out>>
    /\ UNCHANGED storeVars

Scored == pc = "score" /\ Len(rows) = Len(pool)

(* cmd_test: rows.sort(...) and the table *)
FinishTest ==
    /\ Scored
    /\ cmd = "test"
    /\ ranked' = SortDesc(rows)
    /\ out' = <<"table">>
    /\ pc' = "done"
    /\ UNCHANGED <<pool, cur, net, cmd, sample, hlog, href, rows, chosen, err,
                   nprobes>>
    /\ UNCHANGED storeVars

(* cmd_best: max(...) and the json of the best row *)
FinishBest ==
    /\ Scored
    /\ cmd = "best"
    /\ chosen' = <<MaxFirst(rows)>>
    /\ out' = <<"json", MaxFirst(rows).url>>
    /\ pc' = "done"
    /\ UNCHANGED <<pool, cur, net, cmd, sample, hlog, href, rows, ranked, err,
                   nprobes>>
    /\ UNCHANGED storeVars

(* The sequential _save: no other process touches the file. *)
Save(obj) == cur' = obj

(* cmd_pick, also as the tail of cmd_use: sort, scored[0], _save, print *)
FinishPick ==
    /\ Scored
    /\ cmd \in {"pick", "use"}
    /\ LET scored == SortDesc(rows)
           best   == scored[1]
       IN  /\ ranked' = scored
           /\ chosen' = <<best>>
           /\ Save(Selection(best))
           /\ out' = <<"Picked:", best.url, "score=", ToString(best.score)>>
    /\ pc' = "done"
    /\ UNCHANGED <<pool, net, cmd, sample, hlog, href, rows, err, nprobes>>
    /\ UNCHANGED storeVars

CmdTest == Ready /\ Begin("test", "No endpoints to test")
CmdBest == Ready /\ Begin("best", "No endpoints.")
CmdPick == Ready /\ Begin("pick", "No endpoints.")

(* _load(args.current) as cmd_use meets it: {} without the file, the       *)
(* parsed object, or the exception of json.load / of cur.get on a value    *)
(* that is no dict.                                                        *)
LoadError(file) ==
    CASE file.kind = "malformed" -> "JSONDecodeError"
      [] file.kind = "notobject" -> "AttributeError"
      [] OTHER -> ""

(* cmd_use *)
CmdUse ==
    /\ Ready
    /\ IF LoadError(cur) # ""
       THEN /\ Fresh("use")
            /\ pc' = "crashed"
            /\ err' = LoadError(cur)
            /\ out' = <<>>
            /\ sample' = <<>>
            /\ hlog' = NoLog
            /\ UNCHANGED <<pool, cur, net>>
            /\ UNCHANGED storeVars
       ELSE IF cur.kind = "selection" /\ cur.url # ""
       THEN /\ Fresh("use")
            /\ pc' = "done"
            /\ err' = ""
            /\ out' = <<cur.url>>
            /\ sample' = <<>>
            /\ hlog' = NoLog
            /\ UNCHANGED <<pool, cur, net>>
            /\ UNCHANGED storeVars
       ELSE Begin("use", "No endpoints.")
----------------------------------------------------------------------------
(* The scorer alone, on any probe and any reference head *)

Latencies == {100 * i : i \in 0..MaxLatIdx} \cup {1, 599, 1199, 1201, 1500}

HexOf(n) == Str(<<"0", "x", HexDigits[(n \div 16) + 1], HexDigits[(n % 16) + 1]>>)

ScorerProbes ==
    {Resp(k, lat, Null) : k \in FailKinds, lat \in {0, 100, 1500}}
    \cup {Resp("result", lat, res) :
            lat \in Latencies,
            res \in {HexOf(n) : n \in 0..MaxRef} \cup {HexBad, Null}}

ScoreAlone ==
    /\ pc = "idle"
    /\ \E head_ref \in -1..MaxRef, r \in ScorerProbes, tie \in {0, 1} :
         /\ href' = head_ref
         /\ rows' = <<ScoreEndpoint("http://a", 1, head_ref, r, tie)>>
    /\ cmd' = "score"
    /\ pc' = "done"
    /\ nprobes' = 1
    /\ UNCHANGED <<pool, cur, net, sample, hlog, ranked, chosen, out, err>>
    /\ UNCHANGED storeVars

----------------------------------------------------------------------------
(* The sticky store under concurrent processes.  A file name holds an      *)
(* inode (0: no such file); an open file is an inode.  A text is a         *)
(* sequence of bytes; the text of saver p is made of bytes p, the previous *)
(* selection of bytes 0.                                                   *)

Savers  == 1..NSavers
Loaders == 1..NLoaders

Text(p, n) == [i \in 1..n |-> p]
OldText    == Text(0, MaxText)
NoText     == <<-1>>                   \* _load returned {}: there was no file

(* f.write at offset 0 of a file holding `old` *)
WriteAt0(old, text) ==
    IF Len(text) >= Len(old) THEN text
    ELSE text \o SubSeq(old, Len(text) + 1, Len(old))

(* _save: open(tmp, "w") creates current.json.tmp or truncates it *)
SaveOpen(p) ==
    /\ spc[p] = "start"
    /\ \E n \in 1..MaxText : sobj' = [sobj EXCEPT ![p] = Text(p, n)]
    /\ IF fsTmp = 0
       THEN /\ inode' = Append(inode, <<>>)
            /\ fsTmp' = Len(inode) + 1
            /\ sfd' = [sfd EXCEPT ![p] = Len(inode) + 1]
       ELSE /\ inode' = [inode EXCEPT ![fsTmp] = <<>>]
            /\ sfd' = [sfd EXCEPT ![p] = fsTmp]
            /\ UNCHANGED fsTmp
    /\ spc' = [spc EXCEPT ![p] = "dump"]
    /\ UNCHANGED <<fsCur, lpc, lfd, lgot>>
    /\ UNCHANGED cliVars

(* _save: json.dump and the close of the with block; the buffered text     *)
(* goes to the open file in one write                                      *)
SaveDump(p) ==
    /\ spc[p] = "dump"
    /\ inode' = [inode EXCEPT ![sfd[p]] = WriteAt0(@, sobj[p])]
    /\ spc' = [spc EXCEPT ![p] = "replace"]
    /\ UNCHANGED <<fsTmp, fsCur, sfd, sobj, lpc, lfd, lgot>>
    /\ UNCHANGED cliVars

(* _save: os.replace(tmp, path); FileNotFoundError without the tmp name *)
SaveReplace(p) ==
    /\ spc[p] = "replace"
    /\ IF fsTmp = 0
       THEN /\ spc' = [spc EXCEPT ![p] = "crashed"]
            /\ UNCHANGED <<fsTmp, fsCur>>
       ELSE /\ fsCur' = fsTmp
            /\ fsTmp' = 0
            /\ spc' = [spc EXCEPT ![p] = "done"]
    /\ UNCHANGED <<inode, sfd, sobj, lpc, lfd, lgot>>
    /\ UNCHANGED cliVars

(* _load: os.path.exists(path), then open(path) *)
LoadOpen(l) ==
    /\ lpc[l] = "start"
    /\ IF fsCur = 0
       THEN /\ lgot' = [lgot EXCEPT ![l] = NoText]
            /\ lpc' = [lpc EXCEPT ![l] = "done"]
            /\ UNCHANGED lfd
       ELSE /\ lfd' = [lfd EXCEPT ![l] = fsCur]
            /\ lpc' = [lpc EXCEPT ![l] = "read"]
            /\ UNCHANGED lgot
    /\ UNCHANGED <<fsTmp, fsCur, inode, spc, sfd, sobj>>
    /\ UNCHANGED cliVars

(* _load: json.load(f) reads the open file *)
LoadRead(l) ==
    /\ lpc[l] = "read"
    /\ lgot' = [lgot EXCEPT ![l] = inode[lfd[l]]]
    /\ lpc' = [lpc EXCEPT ![l] = "done"]
    /\ UNCHANGED <<fsTmp, fsCur, inode, spc, sfd, sobj, lfd>>
    /\ UNCHANGED cliVars

(* the next `use` of the same reader *)
LoadAgain(l) ==
    /\ lpc[l] = "done"
    /\ lpc' = [lpc EXCEPT ![l] = "start"]
    /\ lfd' = [lfd EXCEPT ![l] = 0]
    /\ lgot' = [lgot EXCEPT ![l] = <<>>]
    /\ UNCHANGED <<fsTmp, fsCur, inode, spc, sfd, sobj>>
    /\ UNCHANGED cliVars

----------------------------------------------------------------------------
(* Specifications *)

CliIdle ==
    /\ pc = "idle"
    /\ cmd = ""
    /\ sample = <<>>
    /\ hlog = NoLog
    /\ href = -1
    /\ rows = <<>>
    /\ ranked = <<>>
    /\ chosen = <<>>
    /\ out = <<>>
    /\ err = ""
    /\ nprobes = 0

StoreIdle ==
    /\ fsTmp = 0
    /\ fsCur = 0
    /\ inode = <<>>
    /\ spc = [p \in Savers |-> "start"]
    /\ sfd = [p \in Savers |-> 0]
    /\ sobj = [p \in Savers |-> <<>>]
    /\ lpc = [l \in Loaders |-> "start"]
    /\ lfd = [l \in Loaders |-> 0]
    /\ lgot = [l \in Loaders |-> <<>>]

(* The command line: no endpoints yet; current.json is missing, or holds   *)
(* something that is no selection.                                         *)
Init ==
    /\ pool = <<>>
    /\ cur \in {Absent, Malformed, NotObject}
    /\ net = CliResponses
    /\ CliIdle
    /\ StoreIdle

Next ==
    \/ CmdAdd
    \/ CmdRemove
    \/ CmdTest
    \/ CmdBest
    \/ CmdPick
    \/ CmdUse
    \/ HeadProbe
    \/ HeadReturn
    \/ ScoreProbe
    \/ FinishTest
    \/ FinishBest
    \/ FinishPick

Spec == Init /\ [][Next]_vars

(* The head estimator on candidate lists of up to MaxCand urls, at most    *)
(* one of them unusable, against every response of the network.            *)
CandidateLists ==
    {[i \in 1..n |-> IF i = b THEN "foo"
                     ELSE IF i % 2 = 1 THEN "http://a" ELSE "http://b"] :
        n \in 0..MaxCand, b \in 0..MaxCand}

InitHead ==
    /\ pool \in CandidateLists
    /\ cur = Absent
    /\ net = AllResponses
    /\ CliIdle
    /\ StoreIdle

NextHead ==
    \/ CmdTest
    \/ HeadProbe
    \/ HeadReturn

SpecHead == InitHead /\ [][NextHead]_vars

(* The scorer alone *)
InitScore ==
    /\ pool = <<"http://a">>
    /\ cur = Absent
    /\ net = ScorerProbes
    /\ CliIdle
    /\ StoreIdle

NextScore == ScoreAlone

SpecScore == InitScore /\ [][NextScore]_vars

(* Concurrent savers and loaders of one current.json, which is missing or  *)
(* holds the previous selection.                                           *)
InitStore ==
    /\ pool = <<>>
    /\ cur = Absent
    /\ net = {}
    /\ CliIdle
    /\ \/ StoreIdle
       \/ /\ fsTmp = 0
          /\ fsCur = 1
          /\ inode = <<OldText>>
          /\ spc = [p \in Savers |-> "start"]
          /\ sfd = [p \in Savers |-> 0]
          /\ sobj = [p \in Savers |-> <<>>]
          /\ lpc = [l \in Loaders |-> "start"]
          /\ lfd = [l \in Loaders |-> 0]
          /\ lgot = [l \in Loaders |-> <<>>]

NextStore ==
    \/ \E p \in Savers : SaveOpen(p) \/ SaveDump(p) \/ SaveReplace(p)
    \/ \E l \in Loaders : LoadOpen(l) \/ LoadRead(l) \/ LoadAgain(l)

SpecStore == InitStore /\ [][NextStore]_vars
----------------------------------------------------------------------------
(* Properties of the scorer (SpecScore) *)

ScoredAlone == pc = "done" /\ cmd = "score"

(* C1: every row the scorer produces has a score within [0, 1] (0..1000    *)
(* thousandths), and a score of exactly 0 when its probe failed.           *)
C1_ScoreRange ==
    \A i \in 1..Len(rows) :
        /\ rows[i].score >= 0
        /\ rows[i].score <= 1000
        /\ (~rows[i].ok => rows[i].score = 0)

(* The floor at work: a reachable endpoint past the latency budget and     *)
(* past the drift window scores 0, not less.                               *)
C1_Witness ==
    /\ ScoredAlone
    /\ rows[1].ok
    /\ rows[1].lat_ms > LAT_BUDGET_MS
    /\ rows[1].drift > HEAD_SKEW_OK + 10
    /\ rows[1].score = 0

(* The formula of the specification, in units of 1/2000:                   *)
(* 0.6 * min(1, L/1200) is min(1200, L) and 0.4 * min(1, (d-3)/10) is      *)
(* min(800, 80 * (d-3)).                                                   *)
RefDrift(h, m) == IF h >= 0 THEN (IF h - m > 0 THEN h - m ELSE 0) ELSE 0

RefScore2000(L, m, h) ==
    LET d  == RefDrift(h, m)
        lp == IF L >= 1200 THEN 1200 ELSE L
        dp == IF d <= 3 THEN 0 ELSE IF d - 3 >= 10 THEN 800 ELSE 80 * (d - 3)
        v  == 2000 - lp - dp
    IN  IF v > 0 THEN v ELSE 0

(* C2: for every successful probe with latency L, measured head m and      *)
(* reference head h, the row's drift is max(0, h - m) (0 when h < 0) and   *)
(* its score is max(0, 1 - 0.6*min(1, L/1200) - 0.4*drift_penalty) rounded *)
(* to 3 decimals: it differs from the exact value by at most half a        *)
(* thousandth.                                                             *)
C2_ScoreFormula ==
    ScoredAlone =>
        \A i \in 1..Len(rows) :
            rows[i].ok =>
                LET ref == RefScore2000(rows[i].lat_ms, rows[i].head, href)
                IN  /\ rows[i].drift = RefDrift(href, rows[i].head)
                    /\ 2 * rows[i].score - ref \in {-1, 0, 1}

(* Latency 100 ms and 8 blocks behind: 1 - 0.05 - 0.4 * 0.5 = 0.75 *)
C2_Witness ==
    /\ ScoredAlone
    /\ rows[1].ok
    /\ rows[1].lat_ms = 100
    /\ rows[1].drift = 8
    /\ rows[1].score = 750

(* The two scenarios of the specification: 0.95 and 0.0 *)
ScenarioA ==
    ScoredAlone /\ rows[1].ok /\ rows[1].lat_ms = 100 /\ rows[1].drift = 0
        => rows[1].score = 950
ScenarioB ==
    ScoredAlone /\ rows[1].ok /\ rows[1].lat_ms = 1500 /\ rows[1].drift = 20
        => rows[1].score = 0

----------------------------------------------------------------------------
(* Properties of the head estimator (SpecHead) *)

SetMax(S) == CHOOSE x \in S : \A y \in S : y <= x

Probed == {i \in DOMAIN hlog : hlog[i] # <<>>}

HeightsSeen ==
    {-1} \cup {HexToInt(RpcPost(hlog[i][1]).res) :
                 i \in {j \in Probed : RpcPost(hlog[j][1]).ok}}

HeadEstimate ==
    /\ Cardinality(Probed) = Min(3, Len(pool))
    /\ \A i \in DOMAIN hlog : Len(hlog[i]) <= 1
    /\ href = SetMax(HeightsSeen)

HeadReturned == pc = "head" /\ sample = <<>>
HeadRaised   == pc = "crashed" /\ hlog # NoLog

(* When _best_height returns, it has probed min(3, |pool|) entries once    *)
(* each and holds the largest height seen, whatever the order.             *)
HeadEstimateWhenReturned == HeadReturned => HeadEstimate

(* C3: for any pool and any probe outcomes the estimator ends by returning *)
(* the maximum height among the min(3, |pool|) entries it probed once      *)
(* each, or -1 if none succeeded.                                          *)
C3_Claim == (HeadReturned \/ HeadRaised) => (HeadReturned /\ HeadEstimate)

----------------------------------------------------------------------------
(* Properties of the commands (Spec) *)

IsRankingOf(r, rs) ==
    /\ Len(r) = Len(rs)
    /\ \A i \in 1..Len(rs) : \E j \in 1..Len(r) : r[j] = rs[i]
    /\ \A i, j \in 1..Len(r) :
          i < j => \/ r[i].score > r[j].score
                   \/ r[i].score = r[j].score /\ r[i].pos < r[j].pos

RowsOfPool ==
    /\ Len(rows) = Len(pool)
    /\ \A i \in 1..Len(rows) : rows[i].pos = i /\ rows[i].url = pool[i]

Ended == pc \in {"done", "crashed"}

(* Whenever a pass completes, the ranking is the stable descending sort of *)
(* one row per pool entry and the chosen row is its first entry.           *)
RankingWhenDone ==
    (pc = "done" /\ cmd \in {"test", "best", "pick", "use"} /\ rows # <<>>) =>
        /\ RowsOfPool
        /\ cmd # "best" => IsRankingOf(ranked, rows)
        /\ cmd # "test" =>
              /\ Len(chosen) = 1
              /\ \A i \in 1..Len(rows) :
                    \/ chosen[1].score > rows[i].score
                    \/ chosen[1].score = rows[i].score /\ chosen[1].pos <= i

(* C4: for any non-empty pool and any probe outcomes, rank-all returns     *)
(* every pool endpoint once, by score descending and pool order among      *)
(* equal scores, and best and pick select the first entry of that ranking. *)
C4_Claim ==
    (Ended /\ cmd \in {"test", "best", "pick"} /\ pool # <<>>) =>
        /\ pc = "done"
        /\ RowsOfPool
        /\ cmd # "best" => IsRankingOf(ranked, rows)
        /\ cmd # "test" =>
              /\ Len(chosen) = 1
              /\ \A i \in 1..Len(rows) :
                    \/ chosen[1].score > rows[i].score
                    \/ chosen[1].score = rows[i].score /\ chosen[1].pos <= i

(* C5: in every ranking no failed endpoint stands before a reachable one,  *)
(* and pick-best never selects or persists a failed endpoint when some     *)
(* endpoint of the pool was probed successfully.                           *)
C5_Claim ==
    pc = "done" =>
        /\ \A i, j \in 1..Len(ranked) :
              i < j => ~(~ranked[i].ok /\ ranked[j].ok)
        /\ (chosen # <<>> /\ \E i \in 1..Len(rows) : rows[i].ok) =>
              /\ chosen[1].ok
              /\ cmd \in {"pick", "use"} =>
                    \E i \in 1..Len(rows) : rows[i].ok /\ rows[i].url = cur.url

(* A failed endpoint never has a higher score than a reachable one. *)
FailedNeverScoresHigher ==
    \A i, j \in 1..Len(rows) : (~rows[i].ok /\ rows[j].ok) => rows[i].score <= rows[j].score

EmptyPoolOutcome == Ended /\ out = <<"No endpoints.">>

(* The state part of C6: the outcome of best and pick *)
C6_State ==
    (Ended /\ cmd \in {"best", "pick"}) =>
        /\ EmptyPoolOutcome <=> pool = <<>>
        /\ pool = <<>> => nprobes = 0 /\ pc = "done"
        /\ pool # <<>> =>
              /\ pc = "done"
              /\ Len(chosen) = 1
              /\ \E i \in 1..Len(pool) : pool[i] = chosen[1].url
              /\ (\A i \in 1..Len(rows) : ~rows[i].ok) => chosen[1].score = 0
              /\ cmd = "pick" => cur = Selection(chosen[1])

(* The step part of C6: on an empty pool no sticky selection is written *)
C6_Step == (pool = <<>> /\ (CmdBest \/ CmdPick)) => cur' = cur

(* C6: pick-best (best, pick) ends in the empty-pool outcome iff the pool  *)
(* is empty, then without a probe and without writing the sticky file; on  *)
(* a non-empty pool, also one whose probes all fail, it returns one        *)
(* endpoint of the pool (score 0 if every probe failed) and pick persists  *)
(* it.                                                                     *)
C6_Claim == [](C6_State) /\ [][C6_Step]_vars

(* What holds of pick-best whenever it ends without an exception *)
PickBestWhenDone ==
    (pc = "done" /\ cmd \in {"best", "pick"}) =>
        /\ EmptyPoolOutcome <=> pool = <<>>
        /\ pool = <<>> => nprobes = 0
        /\ pool # <<>> =>
              /\ Len(chosen) = 1
              /\ \E i \in 1..Len(pool) : pool[i] = chosen[1].url
              /\ (\A i \in 1..Len(rows) : ~rows[i].ok) => chosen[1].score = 0
              /\ cmd = "pick" => cur = Selection(chosen[1])

HasSticky == cur.kind = "selection" /\ cur.url # ""

(* The sticky path of `use`: the stored url, no probe, the file untouched *)
UseStickyStep ==
    (HasSticky /\ CmdUse) =>
        /\ out' = <<cur.url>>
        /\ nprobes' = 0
        /\ pc' = "done"
        /\ cur' = cur

(* Only pick (alone or inside `use`) writes the sticky file *)
OnlyPickWrites == (cur' # cur) => FinishPick

(* The fallback of `use`: the picked endpoint is persisted and its url is  *)
(* what `use` yields                                                       *)
UseFallbackStep ==
    (cmd = "use" /\ FinishPick) =>
        /\ cur' = Selection(chosen'[1])
        /\ out' = <<chosen'[1].url>>

(* C7: with a sticky selection `use` yields its url, probes nothing and    *)
(* leaves the file alone, so it yields what the last pick stored; without  *)
(* one, on a non-empty pool, it persists the picked endpoint's url, score, *)
(* latency and head and yields the picked url.                             *)
C7_Claim == [][UseStickyStep /\ OnlyPickWrites /\ UseFallbackStep]_vars

(* The part of C7 that the code meets *)
C7_StickyPart ==
    [][/\ UseStickyStep
       /\ OnlyPickWrites
       /\ (cmd = "use" /\ FinishPick) => cur' = Selection(chosen'[1])]_vars

(* C9: loading the sticky selection never fails: on a missing or malformed *)
(* current.json `use` goes on to pick-best instead of ending in an error.  *)
C9_Claim ==
    (cmd = "use" /\ cur.kind \in {"absent", "malformed", "notobject"}) =>
        pc \in {"head", "score", "done"}

(* C10: one bad endpoint never aborts a pass: a pass over a non-empty pool *)
(* completes with a row for every pool endpoint, the failing ones with     *)
(* ok = false, a message and score 0.                                      *)
C10_Claim ==
    /\ ~(pc = "crashed" /\ err = "ValueError")
    /\ (pc = "done" /\ cmd \in {"test", "best", "pick"} /\ pool # <<>>) =>
          /\ RowsOfPool
          /\ \A i \in 1..Len(rows) :
                ~rows[i].ok => rows[i].score = 0 /\ rows[i].error # ""

(* Every failure of the exchange itself comes back as data *)
FailuresAbsorbed ==
    \A r \in AllResponses :
        r.kind \in FailKinds => ~RpcPost(r).ok /\ RpcPost(r).msg # ""

----------------------------------------------------------------------------
(* Properties of the sticky store (SpecStore) *)

Complete(text) ==
    \/ text = OldText
    \/ \E p \in Savers : spc[p] # "start" /\ text = sobj[p]

(* C8: under every interleaving of savers and loaders, current.json holds  *)
(* the complete previous selection or the complete selection of one save,  *)
(* and no load reads anything else.                                        *)
C8_Claim ==
    /\ fsCur # 0 => Complete(inode[fsCur])
    /\ \A l \in Loaders :
          lpc[l] = "done" => (lgot[l] = NoText \/ Complete(lgot[l]))
====
